---- MODULE Spec2Model ----
(***************************************************************************)
(* VoiceGuard console (src/App.tsx, src/services/geminiService.ts).        *)
(*                                                                         *)
(* Every JavaScript string is a finite sequence of lexemes (TLA+ strings): *)
(* the empty string is <<>>, `includes` and `endsWith` are computed on the *)
(* sequences, and JSON.parse is a parser over the lexemes of the text.     *)
(* Every JavaScript value is a record tagged by t.                         *)
(***************************************************************************)
EXTENDS Integers, Sequences, FiniteSets, TLC

(* ---------------------------- bounds ----------------------------------- *)
\* runs of the three handlers that get past validation in one behaviour
MaxRuns == 2
\* invocations of one probe that may be in flight at the same time
MaxInFlight == 2
MaxBytes == 3
\* failed analyses already made when the audit log is observed
PriorScans == 6

(* ------------------------ JavaScript values ---------------------------- *)
JNull == [t |-> "null"]
JUndef == [t |-> "undefined"]
JBool(b) == [t |-> "bool", b |-> b]
JNum(n) == [t |-> "num", n |-> n]
JStr(s) == [t |-> "str", s |-> s]
JObj(o) == [t |-> "obj", o |-> o]
EmptyFields == [k \in {} |-> JNull]

\* !s for a string s
IsEmptyStr(s) == Len(s) = 0

\* String.prototype.includes
Includes(s, needle) ==
  \E i \in 1..(Len(s) + 1) :
     /\ i + Len(needle) - 1 <= Len(s)
     /\ SubSeq(s, i, i + Len(needle) - 1) = needle

\* String.prototype.endsWith
EndsWith(s, suffix) ==
  /\ Len(suffix) <= Len(s)
  /\ SubSeq(s, Len(s) - Len(suffix) + 1, Len(s)) = suffix

\* truthiness of a value, as used by `a || b`
Truthy(v) ==
  CASE v.t = "null" -> FALSE
    [] v.t = "undefined" -> FALSE
    [] v.t = "bool" -> v.b
    [] v.t = "num" -> v.n # 0
    [] v.t = "str" -> ~IsEmptyStr(v.s)
    [] OTHER -> TRUE

\* property read v.k: throws on null and undefined, undefined when absent
CanRead(v) == v.t \notin {"null", "undefined"}
Get(v, k) ==
  IF v.t = "obj" /\ k \in DOMAIN v.o THEN v.o[k] ELSE JUndef

(* ----------------------------- JSON.parse ------------------------------ *)
Quote == "\""
\* numeric lexemes and their values (in thousandths)
NumLexVal == [lx \in {"0.91", "1"} |-> IF lx = "0.91" THEN 910 ELSE 1000]
ParseFail == [ok |-> FALSE, val |-> JNull, next |-> 0]
ParseOk(v, n) == [ok |-> TRUE, val |-> v, next |-> n]

\* a string literal starting at the quote toks[i]: "" or "<one lexeme>"
ParseString(toks, i) ==
  IF i + 1 <= Len(toks) /\ toks[i] = Quote /\ toks[i + 1] = Quote
    THEN ParseOk(JStr(<<>>), i + 2)
  ELSE IF i + 2 <= Len(toks) /\ toks[i] = Quote /\ toks[i + 1] # Quote
          /\ toks[i + 2] = Quote
    THEN ParseOk(JStr(<<toks[i + 1]>>), i + 3)
  ELSE ParseFail

KeyOf(str) == IF IsEmptyStr(str.s) THEN "" ELSE str.s[1]

RECURSIVE ParseValue(_, _)
RECURSIVE ParseMembers(_, _, _)
ParseValue(toks, i) ==
  IF i > Len(toks) THEN ParseFail
  ELSE IF toks[i] = "null" THEN ParseOk(JNull, i + 1)
  ELSE IF toks[i] = "true" THEN ParseOk(JBool(TRUE), i + 1)
  ELSE IF toks[i] = "false" THEN ParseOk(JBool(FALSE), i + 1)
  ELSE IF toks[i] \in DOMAIN NumLexVal THEN ParseOk(JNum(NumLexVal[toks[i]]), i + 1)
  ELSE IF toks[i] = Quote THEN ParseString(toks, i)
  ELSE IF toks[i] = "{" THEN
         IF i + 1 <= Len(toks) /\ toks[i + 1] = "}"
           THEN ParseOk(JObj(EmptyFields), i + 2)
           ELSE ParseMembers(toks, i + 1, EmptyFields)
  ELSE ParseFail

\* members of an object after "{" or ",": "key" : value ( "," ... | "}" )
ParseMembers(toks, i, acc) ==
  LET ks == ParseString(toks, i) IN
  IF ~ks.ok \/ ks.next > Len(toks) \/ toks[ks.next] # ":" THEN ParseFail
  ELSE LET v == ParseValue(toks, ks.next + 1) IN
       IF ~v.ok \/ v.next > Len(toks) THEN ParseFail
       ELSE LET k == KeyOf(ks.val)
                acc2 == [x \in (DOMAIN acc) \cup {k} |->
                           IF x = k THEN v.val ELSE acc[x]]
            IN IF toks[v.next] = "," THEN ParseMembers(toks, v.next + 1, acc2)
               ELSE IF toks[v.next] = "}" THEN ParseOk(JObj(acc2), v.next + 1)
               ELSE ParseFail

\* JSON.parse(text): the value, or a SyntaxError
JSONParse(toks) ==
  LET r == ParseValue(toks, 1) IN
  IF r.ok /\ r.next = Len(toks) + 1
    THEN [ok |-> TRUE, val |-> r.val]
    ELSE [ok |-> FALSE, val |-> JNull]

(* --------------------------- JSON.stringify ---------------------------- *)
\* the text of a string, of null, or of a number lexeme's value
StringifyValue(v) ==
  CASE v.t = "str" -> <<Quote>> \o v.s \o <<Quote>>
    [] v.t = "bool" -> IF v.b THEN <<"true">> ELSE <<"false">>
    [] OTHER -> <<"null">>

\* JSON.stringify of an object literal with the keys in the order written
RECURSIVE StringifyMembers(_, _)
StringifyMembers(keys, o) ==
  IF keys = <<>> THEN <<>>
  ELSE <<Quote, Head(keys), Quote, ":">> \o StringifyValue(o[Head(keys)])
         \o (IF Len(keys) > 1 THEN <<",">> ELSE <<>>)
         \o StringifyMembers(Tail(keys), o)
JSONStringify(keys, o) == <<"{">> \o StringifyMembers(keys, o) \o <<"}">>

(* ------------------------- program constants --------------------------- *)
\* SUPPORTED_LANGUAGES[0].name
DefaultLanguage == <<"English">>
\* the endpoints the user may type; the last two are the sample endpoints
PlainEndpoint == <<"https://", "example.org", "/probe">>
SampleTesterEndpoint == <<"https://", "api.", "voiceguard-forensics.com", "/v1/detect">>
SampleHoneypotEndpoint ==
  <<"https://", "intel.", "voiceguard-forensics.com", "/v1/traps/nexus-7">>
SampleApiKey == <<"vg_live_9a2f-88cc-4100-be02">>
SampleAudioBase64 == <<"SUQzBAAAAAAAI1RTU0UAAAAPAAADTGF2ZjYwLjEwMC4xMDAA">>
\* the substrings that switch the catch blocks to the mock answer
TesterMockMarker == <<"voiceguard-forensics.com">>
HoneypotMockMarker == <<"intel.", "voiceguard-forensics.com">>
MissingFieldsMessage == <<"Missing mandatory fields.">>
MaxLogs == 10
MockTesterLatency == 442
MockHoneypotLatency == 210
MockConfidence == 982

(* ------------------------------ state ---------------------------------- *)
VARIABLES
  activeTab,        \* 'lab' | 'tester' | 'honeypot' | 'backend'
  selectedLanguage, file, isAnalyzing, result, labError,   \* lab state
  logs,             \* BackendLog[]
  tester,           \* TesterState
  honeypot,         \* HoneypotTesterState
  labTask,          \* the handleAnalyze run in flight, or pc = "none"
  testerTasks,      \* handleTestEndpoint runs in flight
  honeypotTasks,    \* handleTestHoneypot runs in flight
  runs,             \* handler runs that got past validation so far
  sent,             \* outbound network requests issued so far
  unhandled         \* an exception left a handler as an unhandled rejection

vars == <<activeTab, selectedLanguage, file, isAnalyzing, result, labError,
          logs, tester, honeypot, labTask, testerTasks, honeypotTasks, runs,
          sent, unhandled>>
labVars == <<selectedLanguage, file, isAnalyzing, result, labError, labTask>>
testerVars == <<tester, testerTasks>>
honeypotVars == <<honeypot, honeypotTasks>>

Log(action, target, status, latency) ==
  [action |-> action, target |-> target, status |-> status, latency |-> latency]

InitialLogs ==
  << Log("INIT_SYSTEM", <<"KERNEL_CORE">>, "SUCCESS", 45),
     Log("SCAN_AUDIO", <<"EN_US_SAMPLE">>, "SUCCESS", 1202),
     Log("AUTH_PROBE", <<"API_KEY_V2">>, "WARNING", 12) >>

InitialTester ==
  [endpoint |-> <<>>, apiKey |-> <<>>, language |-> DefaultLanguage,
   audioFormat |-> <<"mp3">>, audioBase64 |-> <<>>,
   status |-> "idle", response |-> JNull, latency |-> JNull]

InitialHoneypot ==
  [endpoint |-> <<>>, apiKey |-> <<>>, headerKey |-> <<"x-api-key">>,
   status |-> "idle", response |-> JNull, statusCode |-> JNull,
   headers |-> EmptyFields]

NoTask == [pc |-> "none"]

Init ==
  /\ activeTab = "lab"
  /\ selectedLanguage = DefaultLanguage
  /\ file = JNull
  /\ isAnalyzing = FALSE
  /\ result = JNull
  /\ labError = JNull
  /\ logs = InitialLogs
  /\ tester = InitialTester
  /\ honeypot = InitialHoneypot
  /\ labTask = NoTask
  /\ testerTasks = <<>>
  /\ honeypotTasks = <<>>
  /\ runs = 0
  /\ sent = 0
  /\ unhandled = FALSE

(* ------------------------------ helpers -------------------------------- *)
\* an addLog that appends: [...prev, newLog].slice(0, 10)
addLog_Appends(prev, action, target, status, latency) ==
  LET all == prev \o <<Log(action, target, status, latency)>>
  IN SubSeq(all, 1, IF Len(all) < MaxLogs THEN Len(all) ELSE MaxLogs)

\* setLogs(prev => [newLog, ...prev].slice(0, 10))
addLog(prev, action, target, status, latency) ==
  LET all == <<Log(action, target, status, latency)>> \o prev
  IN SubSeq(all, 1, IF Len(all) < MaxLogs THEN Len(all) ELSE MaxLogs)

\* the sequence s without its i-th element
RemoveAt(s, i) == SubSeq(s, 1, i - 1) \o SubSeq(s, i + 1, Len(s))

\* a response body: a stream carrying text, or the null body of a 204
Body(text) == [has |-> TRUE, text |-> text]
NoBody == [has |-> FALSE, text |-> <<>>]
\* what Response.text() resolves to when the body can be read
BodyText(body) == IF body.has THEN body.text ELSE <<>>

\* Response.ok with the upper end of the 2xx range excluded
ResponseOk_UpperExcluded(status) == status >= 200 /\ status < 299

\* Response.ok
ResponseOk(status) == status >= 200 /\ status <= 299

\* reading err.message in a catch block throws when err is null or undefined
CatchThrows(err) == ~CanRead(err)

setActiveTab(tab) ==
  /\ activeTab' = tab
  /\ UNCHANGED <<labVars, logs, testerVars, honeypotVars, runs, sent, unhandled>>

\* click on Clear Stack in the backend tab: setLogs([])
ClearStack ==
  /\ activeTab = "backend"
  /\ logs' = <<>>
  /\ UNCHANGED <<activeTab, labVars, testerVars, honeypotVars, runs, sent, unhandled>>

(* --------------------------- generic probe ----------------------------- *)
\* an endpoint input that also sets the outcome back to idle
setTesterEndpoint_ResetsOutcome(e) ==
  /\ activeTab = "tester"
  /\ tester' = [tester EXCEPT !.endpoint = e, !.status = "idle",
                              !.response = JNull, !.latency = JNull]
  /\ UNCHANGED <<activeTab, labVars, logs, testerTasks, honeypotVars, runs, sent, unhandled>>

\* onChange of the two inputs of the tester panel
setTesterEndpoint(e) ==
  /\ activeTab = "tester"
  /\ tester' = [tester EXCEPT !.endpoint = e]
  /\ UNCHANGED <<activeTab, labVars, logs, testerTasks, honeypotVars, runs, sent, unhandled>>

setTesterApiKey(k) ==
  /\ activeTab = "tester"
  /\ tester' = [tester EXCEPT !.apiKey = k]
  /\ UNCHANGED <<activeTab, labVars, logs, testerTasks, honeypotVars, runs, sent, unhandled>>

\* Load Sample Data that also abandons the requests in flight
loadSampleTesterData_CancelsRuns ==
  /\ activeTab = "tester"
  /\ tester' = [endpoint |-> SampleTesterEndpoint, apiKey |-> SampleApiKey,
                language |-> <<"English">>, audioFormat |-> <<"mp3">>,
                audioBase64 |-> SampleAudioBase64,
                status |-> "idle", response |-> JNull, latency |-> JNull]
  /\ testerTasks' = <<>>
  /\ UNCHANGED <<activeTab, labVars, logs, honeypotVars, runs, sent, unhandled>>

\* click on Load Sample Data
loadSampleTesterData ==
  /\ activeTab = "tester"
  /\ tester' = [endpoint |-> SampleTesterEndpoint, apiKey |-> SampleApiKey,
                language |-> <<"English">>, audioFormat |-> <<"mp3">>,
                audioBase64 |-> SampleAudioBase64,
                status |-> "idle", response |-> JNull, latency |-> JNull]
  /\ UNCHANGED <<activeTab, labVars, logs, testerTasks, honeypotVars, runs, sent, unhandled>>

\* the missingFields array of handleTestEndpoint
missingFields(t) ==
  (IF IsEmptyStr(t.endpoint) THEN <<"Endpoint URL">> ELSE <<>>)
    \o (IF IsEmptyStr(t.apiKey) THEN <<"x-api-key">> ELSE <<>>)

\* a request whose body carries the audio under the single key "audio"
TesterRequest_AudioOnly(t) ==
  [url |-> t.endpoint, method |-> "POST",
   headers |-> [h \in {"Content-Type", "x-api-key"} |->
                  IF h = "Content-Type" THEN <<"application/json">> ELSE t.apiKey],
   body |-> JSONStringify(<<"audio">>, [k \in {"audio"} |-> JStr(t.audioBase64)])]

\* the request handleTestEndpoint passes to fetch
TesterRequest(t) ==
  [url |-> t.endpoint, method |-> "POST",
   headers |-> [h \in {"Content-Type", "x-api-key"} |->
                  IF h = "Content-Type" THEN <<"application/json">> ELSE t.apiKey],
   body |-> JSONStringify(<<"Language", "Audio Format", "Audio Base64 Format">>,
              [k \in {"Language", "Audio Format", "Audio Base64 Format"} |->
                 CASE k = "Language" -> JStr(t.language)
                   [] k = "Audio Format" -> JStr(t.audioFormat)
                   [] OTHER -> JStr(t.audioBase64)])]

\* click on Execute Probe (disabled while tester.status is 'loading'):
\* handleTestEndpoint up to its first await
handleTestEndpoint ==
  /\ activeTab = "tester"
  /\ tester.status # "loading"
  /\ IF Len(missingFields(tester)) > 0
       THEN /\ tester' = [tester EXCEPT !.status = "error",
                            !.response = JObj([error |-> JStr(MissingFieldsMessage)])]
            /\ UNCHANGED <<testerTasks, runs, sent>>
       ELSE /\ runs < MaxRuns
            /\ runs' = runs + 1
            /\ Len(testerTasks) < MaxInFlight
            /\ tester' = [tester EXCEPT !.status = "loading", !.response = JNull,
                                        !.latency = JNull]
            /\ testerTasks' = Append(testerTasks,
                 [pc |-> "fetch", endpoint |-> tester.endpoint,
                  req |-> TesterRequest(tester)])
            /\ sent' = sent + 1
  /\ UNCHANGED <<activeTab, labVars, logs, honeypotVars, unhandled>>

\* fetch resolves: latency is taken and response.text() starts reading
TesterFetchResolves(i, status, body, latency) ==
  /\ i \in 1..Len(testerTasks)
  /\ testerTasks[i].pc = "fetch"
  /\ testerTasks' = [testerTasks EXCEPT ![i] =
       [pc |-> "text", endpoint |-> @.endpoint, req |-> @.req,
        status |-> status, body |-> body, latency |-> latency]]
  /\ UNCHANGED <<activeTab, labVars, logs, tester, honeypotVars, runs, sent, unhandled>>

\* the fallback of the JSON decode wraps the decode error instead of the text
TesterData_ErrorWrapped(responseText) ==
  LET parsed == JSONParse(responseText) IN
  IF parsed.ok THEN parsed.val
  ELSE JObj([error |-> JStr(<<"Unexpected token">>)])

\* the data handleTestEndpoint derives from the response text
TesterData(responseText) ==
  LET parsed == JSONParse(responseText) IN
  IF parsed.ok THEN parsed.val ELSE JObj([response |-> JStr(responseText)])

\* a completion that writes the outcome over the panel state of the click
TesterTextResolves_StaleRequest(i) ==
  /\ i \in 1..Len(testerTasks)
  /\ testerTasks[i].pc = "text"
  /\ LET task == testerTasks[i]
         ok == ResponseOk(task.status)
     IN /\ tester' = [tester EXCEPT !.endpoint = task.endpoint,
                                    !.apiKey = task.req.headers["x-api-key"],
                                    !.status = IF ok THEN "success" ELSE "error",
                                    !.response = TesterData(BodyText(task.body)),
                                    !.latency = JNum(task.latency)]
        /\ logs' = addLog(logs, "API_PROBE", task.endpoint,
                          IF ok THEN "SUCCESS" ELSE "FAILURE", task.latency)
  /\ testerTasks' = RemoveAt(testerTasks, i)
  /\ UNCHANGED <<activeTab, labVars, honeypotVars, runs, sent, unhandled>>

\* response.text() resolves: lines 186-189
TesterTextResolves(i) ==
  /\ i \in 1..Len(testerTasks)
  /\ testerTasks[i].pc = "text"
  /\ LET task == testerTasks[i]
         ok == ResponseOk(task.status)
     IN /\ tester' = [tester EXCEPT !.status = IF ok THEN "success" ELSE "error",
                                    !.response = TesterData(BodyText(task.body)),
                                    !.latency = JNum(task.latency)]
        /\ logs' = addLog(logs, "API_PROBE", task.endpoint,
                          IF ok THEN "SUCCESS" ELSE "FAILURE", task.latency)
  /\ testerTasks' = RemoveAt(testerTasks, i)
  /\ UNCHANGED <<activeTab, labVars, honeypotVars, runs, sent, unhandled>>

\* the catch block answering every endpoint with the mock
TesterCatch_AlwaysMock(i, err) ==
  LET task == testerTasks[i] IN
  /\ testerTasks' = [testerTasks EXCEPT ![i] =
                       [pc |-> "timer", endpoint |-> task.endpoint, req |-> task.req]]
  /\ UNCHANGED <<tester, logs, unhandled>>

\* a catch block that swallows the failure and writes nothing
TesterCatch_Swallows(i, err) ==
  /\ testerTasks' = RemoveAt(testerTasks, i)
  /\ UNCHANGED <<tester, logs, unhandled>>

\* the catch block of handleTestEndpoint, entered with err by task i
TesterCatch(i, err) ==
  LET task == testerTasks[i] IN
  IF CatchThrows(err) /\ ~Includes(task.endpoint, TesterMockMarker)
    THEN /\ unhandled' = TRUE
         /\ testerTasks' = RemoveAt(testerTasks, i)
         /\ UNCHANGED <<tester, logs>>
  ELSE IF Includes(task.endpoint, TesterMockMarker)
    THEN /\ testerTasks' = [testerTasks EXCEPT ![i] =
                             [pc |-> "timer", endpoint |-> task.endpoint, req |-> task.req]]
         /\ UNCHANGED <<tester, logs, unhandled>>
    ELSE /\ tester' = [tester EXCEPT !.status = "error",
                          !.response = JObj([error |-> Get(err, "message")])]
         /\ logs' = addLog(logs, "API_PROBE", task.endpoint, "FAILURE", 0)
         /\ testerTasks' = RemoveAt(testerTasks, i)
         /\ UNCHANGED unhandled

\* fetch rejects (DNS, CORS, connection refused)
TesterFetchRejects(i, err) ==
  /\ i \in 1..Len(testerTasks)
  /\ testerTasks[i].pc = "fetch"
  /\ TesterCatch(i, err)
  /\ UNCHANGED <<activeTab, labVars, honeypotVars, runs, sent>>

\* response.text() rejects (the connection breaks while the body is read)
TesterTextRejects(i, err) ==
  /\ i \in 1..Len(testerTasks)
  /\ testerTasks[i].pc = "text"
  /\ TesterCatch(i, err)
  /\ UNCHANGED <<activeTab, labVars, honeypotVars, runs, sent>>

\* the setTimeout callback of the catch block fires after 800 ms
TesterMockTimer(i) ==
  /\ i \in 1..Len(testerTasks)
  /\ testerTasks[i].pc = "timer"
  /\ tester' = [tester EXCEPT !.status = "success", !.latency = JNum(MockTesterLatency),
        !.response = JObj([k \in {"classification", "confidence"} |->
                            IF k = "classification" THEN JStr(<<"AI_GENERATED">>)
                                                    ELSE JNum(MockConfidence)])]
  /\ logs' = addLog(logs, "API_PROBE", <<"MOCK_VOICEGUARD">>, "SUCCESS", MockTesterLatency)
  /\ testerTasks' = RemoveAt(testerTasks, i)
  /\ UNCHANGED <<activeTab, labVars, honeypotVars, runs, sent, unhandled>>

(* --------------------------- honeypot probe ---------------------------- *)
setHoneypotEndpoint(e) ==
  /\ activeTab = "honeypot"
  /\ honeypot' = [honeypot EXCEPT !.endpoint = e]
  /\ UNCHANGED <<activeTab, labVars, logs, testerVars, honeypotTasks, runs, sent, unhandled>>

\* the request handleTestHoneypot passes to fetch; the computed key
\* [honeypot.headerKey] overrides Content-Type when it has the same name
HoneypotRequest(h) ==
  LET name == IF IsEmptyStr(h.headerKey) THEN "" ELSE h.headerKey[1] IN
  [url |-> h.endpoint, method |-> "POST",
   headers |-> [x \in {"Content-Type", name} |->
                  IF x = name THEN h.apiKey ELSE <<"application/json">>],
   body |-> JSONStringify(<<"test">>, [k \in {"test"} |-> JStr(<<"honeypot_probe">>)])]

\* handleTestHoneypot returning early also when the header value is empty
handleTestHoneypot_KeyRequired ==
  /\ activeTab = "honeypot"
  /\ IF IsEmptyStr(honeypot.endpoint) \/ IsEmptyStr(honeypot.apiKey)
       THEN UNCHANGED <<honeypot, honeypotTasks, runs, sent>>
       ELSE /\ runs < MaxRuns
            /\ runs' = runs + 1
            /\ honeypot' = [honeypot EXCEPT !.status = "loading"]
            /\ honeypotTasks' = Append(honeypotTasks,
                 [pc |-> "fetch", endpoint |-> honeypot.endpoint,
                  req |-> HoneypotRequest(honeypot)])
            /\ sent' = sent + 1
  /\ UNCHANGED <<activeTab, labVars, logs, testerVars, unhandled>>

\* click on Test Honeypot: handleTestHoneypot up to its first await
handleTestHoneypot ==
  /\ activeTab = "honeypot"
  /\ IF IsEmptyStr(honeypot.endpoint)
       THEN UNCHANGED <<honeypot, honeypotTasks, runs, sent>>
       ELSE /\ runs < MaxRuns
            /\ runs' = runs + 1
            /\ Len(honeypotTasks) < MaxInFlight
            /\ honeypot' = [honeypot EXCEPT !.status = "loading"]
            /\ honeypotTasks' = Append(honeypotTasks,
                 [pc |-> "fetch", endpoint |-> honeypot.endpoint,
                  req |-> HoneypotRequest(honeypot)])
            /\ sent' = sent + 1
  /\ UNCHANGED <<activeTab, labVars, logs, testerVars, unhandled>>

\* fetch resolves: latency is taken and response.json() starts reading
HoneypotFetchResolves(i, status, headers, body, latency) ==
  /\ i \in 1..Len(honeypotTasks)
  /\ honeypotTasks[i].pc = "fetch"
  /\ honeypotTasks' = [honeypotTasks EXCEPT ![i] =
       [pc |-> "json", endpoint |-> @.endpoint, req |-> @.req,
        status |-> status, headers |-> headers, body |-> body, latency |-> latency]]
  /\ UNCHANGED <<activeTab, labVars, logs, testerVars, honeypot, runs, sent, unhandled>>

\* the TypeError of reading a body that response.json() has already consumed
BodyUsedError == JObj([message |-> JStr(<<"body stream already read">>)])

\* `try { data = await response.json() } catch { data = await response.text() }`
\* for a body whose stream breaks (streamFails) or arrives whole.  json()
\* consumes a body stream, so the text() of the inner catch rejects unless the
\* response has the null body.
HoneypotData(body, streamFails) ==
  LET parsed == JSONParse(BodyText(body)) IN
  IF body.has /\ ~streamFails /\ parsed.ok THEN [ok |-> TRUE, val |-> parsed.val]
  ELSE IF ~body.has THEN [ok |-> TRUE, val |-> JStr(BodyText(body))]
  ELSE [ok |-> FALSE, val |-> BodyUsedError]

\* the catch block testing for the marker of the generic probe
HoneypotCatch_TesterMarker(i, err) ==
  LET task == honeypotTasks[i] IN
  IF Includes(task.endpoint, TesterMockMarker)
    THEN /\ honeypotTasks' = [honeypotTasks EXCEPT ![i] =
                               [pc |-> "timer", endpoint |-> task.endpoint, req |-> task.req]]
         /\ UNCHANGED <<honeypot, logs, unhandled>>
    ELSE /\ honeypot' = [honeypot EXCEPT !.status = "error",
                            !.response = JObj([error |-> Get(err, "message")])]
         /\ logs' = addLog(logs, "TRAP_TEST", task.endpoint, "FAILURE", 0)
         /\ honeypotTasks' = RemoveAt(honeypotTasks, i)
         /\ UNCHANGED unhandled

\* the catch block of handleTestHoneypot, entered with err by task i
HoneypotCatch(i, err) ==
  LET task == honeypotTasks[i] IN
  IF CatchThrows(err) /\ ~Includes(task.endpoint, HoneypotMockMarker)
    THEN /\ unhandled' = TRUE
         /\ honeypotTasks' = RemoveAt(honeypotTasks, i)
         /\ UNCHANGED <<honeypot, logs>>
  ELSE IF Includes(task.endpoint, HoneypotMockMarker)
    THEN /\ honeypotTasks' = [honeypotTasks EXCEPT ![i] =
                               [pc |-> "timer", endpoint |-> task.endpoint, req |-> task.req]]
         /\ UNCHANGED <<honeypot, logs, unhandled>>
    ELSE /\ honeypot' = [honeypot EXCEPT !.status = "error",
                            !.response = JObj([error |-> Get(err, "message")])]
         /\ logs' = addLog(logs, "TRAP_TEST", task.endpoint, "FAILURE", 0)
         /\ honeypotTasks' = RemoveAt(honeypotTasks, i)
         /\ UNCHANGED unhandled

\* response.json() settles: lines 216-218, or the catch block
HoneypotJsonSettles(i, streamFails) ==
  /\ i \in 1..Len(honeypotTasks)
  /\ honeypotTasks[i].pc = "json"
  /\ streamFails => honeypotTasks[i].body.has
  /\ LET task == honeypotTasks[i]
         data == HoneypotData(task.body, streamFails)
         ok == ResponseOk(task.status)
     IN IF data.ok
          THEN /\ honeypot' = [honeypot EXCEPT
                                 !.status = IF ok THEN "success" ELSE "error",
                                 !.statusCode = JNum(task.status),
                                 !.response = data.val]
               /\ logs' = addLog(logs, "TRAP_TEST", task.endpoint,
                                 IF ok THEN "SUCCESS" ELSE "WARNING", task.latency)
               /\ honeypotTasks' = RemoveAt(honeypotTasks, i)
               /\ UNCHANGED unhandled
          ELSE HoneypotCatch(i, data.val)
  /\ UNCHANGED <<activeTab, labVars, testerVars, runs, sent>>

\* fetch rejects (DNS, CORS, connection refused)
HoneypotFetchRejects(i, err) ==
  /\ i \in 1..Len(honeypotTasks)
  /\ honeypotTasks[i].pc = "fetch"
  /\ HoneypotCatch(i, err)
  /\ UNCHANGED <<activeTab, labVars, testerVars, runs, sent>>

\* a mock timer of the honeypot that also marks the generic probe as done
HoneypotMockTimer_WritesTester(i) ==
  /\ i \in 1..Len(honeypotTasks)
  /\ honeypotTasks[i].pc = "timer"
  /\ honeypot' = [honeypot EXCEPT !.status = "success", !.statusCode = JNum(200),
        !.response = JObj([k \in {"status", "trap_id"} |->
                            IF k = "status" THEN JStr(<<"active">>)
                                            ELSE JStr(<<"nexus-7">>)])]
  /\ tester' = [tester EXCEPT !.status = "success"]
  /\ logs' = addLog(logs, "TRAP_TEST", <<"MOCK_HONEYPOT">>, "SUCCESS", MockHoneypotLatency)
  /\ honeypotTasks' = RemoveAt(honeypotTasks, i)
  /\ UNCHANGED <<activeTab, labVars, testerTasks, runs, sent, unhandled>>

\* the setTimeout callback of the catch block fires after 800 ms
HoneypotMockTimer(i) ==
  /\ i \in 1..Len(honeypotTasks)
  /\ honeypotTasks[i].pc = "timer"
  /\ honeypot' = [honeypot EXCEPT !.status = "success", !.statusCode = JNum(200),
        !.response = JObj([k \in {"status", "trap_id"} |->
                            IF k = "status" THEN JStr(<<"active">>)
                                            ELSE JStr(<<"nexus-7">>)])]
  /\ logs' = addLog(logs, "TRAP_TEST", <<"MOCK_HONEYPOT">>, "SUCCESS", MockHoneypotLatency)
  /\ honeypotTasks' = RemoveAt(honeypotTasks, i)
  /\ UNCHANGED <<activeTab, labVars, testerVars, runs, sent, unhandled>>

(* ------------------------------ encoder -------------------------------- *)
B64Alphabet ==
  << "A","B","C","D","E","F","G","H","I","J","K","L","M","N","O","P",
     "Q","R","S","T","U","V","W","X","Y","Z","a","b","c","d","e","f",
     "g","h","i","j","k","l","m","n","o","p","q","r","s","t","u","v",
     "w","x","y","z","0","1","2","3","4","5","6","7","8","9","+","/" >>

\* base64 of a byte sequence, one lexeme per character
RECURSIVE Base64(_)
Base64(b) ==
  IF Len(b) = 0 THEN <<>>
  ELSE IF Len(b) = 1 THEN
    << B64Alphabet[(b[1] \div 4) + 1], B64Alphabet[((b[1] % 4) * 16) + 1], "=", "=" >>
  ELSE IF Len(b) = 2 THEN
    << B64Alphabet[(b[1] \div 4) + 1],
       B64Alphabet[((b[1] % 4) * 16) + (b[2] \div 16) + 1],
       B64Alphabet[((b[2] % 16) * 4) + 1], "=" >>
  ELSE
    << B64Alphabet[(b[1] \div 4) + 1],
       B64Alphabet[((b[1] % 4) * 16) + (b[2] \div 16) + 1],
       B64Alphabet[((b[2] % 16) * 4) + (b[3] \div 64) + 1],
       B64Alphabet[(b[3] % 64) + 1] >> \o Base64(SubSeq(b, 4, Len(b)))

\* FileReader.readAsDataURL: data:<type>;base64,<payload>
DataURL(f) ==
  <<"data:">> \o (IF IsEmptyStr(f.type) THEN <<"application/octet-stream">> ELSE f.type)
    \o <<";base64", ",">> \o Base64(f.bytes)

\* s.split(',')[1]
RECURSIVE UpToComma(_)
UpToComma(s) ==
  IF Len(s) = 0 \/ s[1] = "," THEN <<>> ELSE <<s[1]>> \o UpToComma(Tail(s))
RECURSIVE AfterComma(_)
AfterComma(s) ==
  IF Len(s) = 0 THEN JUndef
  ELSE IF s[1] = "," THEN JStr(UpToComma(Tail(s)))
  ELSE AfterComma(Tail(s))

\* the bytes a base64 text stands for: what the receiver of inlineData.data
\* computes
B64Index(c) == (CHOOSE i \in 1..64 : B64Alphabet[i] = c) - 1
RECURSIVE Base64Decode(_)
Base64Decode(s) ==
  IF Len(s) < 4 THEN <<>>
  ELSE LET a == B64Index(s[1])
           b == B64Index(s[2])
       IN IF s[3] = "=" THEN << (a * 4) + (b \div 16) >>
          ELSE LET c == B64Index(s[3]) IN
               IF s[4] = "="
                 THEN << (a * 4) + (b \div 16), ((b % 16) * 16) + (c \div 4) >>
                 ELSE << (a * 4) + (b \div 16), ((b % 16) * 16) + (c \div 4),
                         ((c % 4) * 64) + B64Index(s[4]) >>
                      \o Base64Decode(SubSeq(s, 5, Len(s)))

\* a convertToBase64 that resolves with the whole data URL
convertToBase64_KeepsPrefix(f) == JStr(DataURL(f))

\* what the promise of convertToBase64 resolves to when the read succeeds
convertToBase64(f) == AfterComma(DataURL(f))

(* ----------------------------- classifier ------------------------------ *)
ResultFields == {"classification", "confidence", "language", "reasoning", "spectralNotes"}
InvalidReportMessage ==
  <<"Forensic engine failed to provide a valid JSON report. Please try again.">>
EngineUnavailableMessage == <<"Analysis engine unavailable.">>
SelectFileMessage == <<"Please select an audio file first.">>
UploadMp3Message == <<"Please upload an MP3 file.">>
ErrorOf(message) == JObj([message |-> JStr(message)])

\* the request analyzeAudio passes to ai.models.generateContent
AnalysisRequest(base64Audio, mimeType, targetLanguage) ==
  [model |-> "gemini-3-flash-preview", mimeType |-> mimeType, data |-> base64Audio,
   language |-> targetLanguage, required |-> ResultFields]

\* analyzeAudio returning the result without the spectral notes
analyzeAudio_DropsNotes(responseText) ==
  LET text == IF Truthy(responseText) THEN responseText.s ELSE <<"{", "}">>
      parsed == JSONParse(text)
  IN IF parsed.ok /\ CanRead(parsed.val)
       THEN [ok |-> TRUE,
             val |-> JObj([k \in ResultFields |->
                            IF k = "spectralNotes" THEN JUndef ELSE Get(parsed.val, k)])]
       ELSE [ok |-> FALSE, val |-> ErrorOf(InvalidReportMessage)]

\* the try block of analyzeAudio applied to response.text: the returned
\* AnalysisResult, or the Error thrown by the catch block
analyzeAudio(responseText) ==
  LET text == IF Truthy(responseText) THEN responseText.s ELSE <<"{", "}">>
      parsed == JSONParse(text)
  IN IF parsed.ok /\ CanRead(parsed.val)
       THEN [ok |-> TRUE,
             val |-> JObj([k \in ResultFields |-> Get(parsed.val, k)])]
       ELSE [ok |-> FALSE, val |-> ErrorOf(InvalidReportMessage)]

(* -------------------------------- lab ---------------------------------- *)
setSelectedLanguage(l) ==
  /\ activeTab = "lab"
  /\ selectedLanguage' = l
  /\ UNCHANGED <<activeTab, file, isAnalyzing, result, labError, labTask, logs,
                 testerVars, honeypotVars, runs, sent, unhandled>>

\* a file test that looks at the type alone
AcceptedFile_TypeOnly(f) == f.type = <<"audio/mpeg">>

\* the file test of handleFileChange
AcceptedFile(f) == ~(f.type # <<"audio/mpeg">> /\ ~EndsWith(f.name, <<".mp3">>))

\* onChange of the file input with the chosen file f
handleFileChange(f) ==
  /\ activeTab = "lab"
  /\ IF ~AcceptedFile(f)
       THEN /\ labError' = JStr(UploadMp3Message)
            /\ UNCHANGED <<file, result>>
       ELSE /\ file' = f
            /\ labError' = JNull
            /\ result' = JNull
  /\ UNCHANGED <<activeTab, selectedLanguage, isAnalyzing, labTask, logs,
                 testerVars, honeypotVars, runs, sent, unhandled>>

\* click on Run Forensic Scan (disabled while !file || isAnalyzing):
\* handleAnalyze up to its first await
handleAnalyze ==
  /\ activeTab = "lab"
  /\ file # JNull
  /\ ~isAnalyzing
  /\ IF file = JNull
       THEN /\ labError' = JStr(SelectFileMessage)
            /\ UNCHANGED <<isAnalyzing, labTask, runs>>
       ELSE /\ runs < MaxRuns
            /\ runs' = runs + 1
            /\ isAnalyzing' = TRUE
            /\ labError' = JNull
            /\ labTask' = [pc |-> "encode", file |-> file, language |-> selectedLanguage]
  /\ UNCHANGED <<activeTab, selectedLanguage, file, result, logs,
                 testerVars, honeypotVars, sent, unhandled>>

\* catch and finally without the `|| 'Analysis engine unavailable.'` fallback
AnalyzeCatch_NoFallback(err, latency) ==
  /\ labError' = (IF Get(err, "message").t = "undefined" THEN JNull
                                                         ELSE Get(err, "message"))
  /\ logs' = addLog(logs, "FORENSIC_SCAN", labTask.file.name, "FAILURE", latency)
  /\ isAnalyzing' = FALSE
  /\ labTask' = NoTask
  /\ UNCHANGED <<result, unhandled>>

\* a catch block without the finally that ends the analysis
AnalyzeCatch_NoFinally(err, latency) ==
  /\ labError' = (IF Truthy(Get(err, "message")) THEN Get(err, "message")
                                                 ELSE JStr(EngineUnavailableMessage))
  /\ logs' = addLog(logs, "FORENSIC_SCAN", labTask.file.name, "FAILURE", latency)
  /\ labTask' = NoTask
  /\ UNCHANGED <<isAnalyzing, result, unhandled>>

\* catch and finally of handleAnalyze, entered with err
AnalyzeCatch(err, latency) ==
  /\ IF CatchThrows(err)
       THEN /\ unhandled' = TRUE
            /\ UNCHANGED <<labError, logs>>
       ELSE /\ labError' = (IF Truthy(Get(err, "message")) THEN Get(err, "message")
                                                        ELSE JStr(EngineUnavailableMessage))
            /\ logs' = addLog(logs, "FORENSIC_SCAN", labTask.file.name, "FAILURE", latency)
            /\ UNCHANGED unhandled
  /\ isAnalyzing' = FALSE
  /\ labTask' = NoTask
  /\ UNCHANGED result

\* reader.onload: convertToBase64 resolves and analyzeAudio issues its request
EncodeResolves ==
  /\ labTask.pc = "encode"
  /\ labTask' = [pc |-> "generate", file |-> labTask.file, language |-> labTask.language,
                 req |-> AnalysisRequest(convertToBase64(labTask.file),
                                         labTask.file.type, labTask.language)]
  /\ sent' = sent + 1
  /\ UNCHANGED <<activeTab, selectedLanguage, file, isAnalyzing, result, labError,
                 logs, testerVars, honeypotVars, runs, unhandled>>

\* reader.onerror: convertToBase64 rejects with the ProgressEvent
EncodeRejects(event, latency) ==
  /\ labTask.pc = "encode"
  /\ AnalyzeCatch(event, latency)
  /\ UNCHANGED <<activeTab, selectedLanguage, file, testerVars, honeypotVars, runs, sent>>

\* a failure of generateContent that issues the request once more
GenerateRejects_Retries(err, latency) ==
  /\ labTask.pc = "generate"
  /\ sent' = sent + 1
  /\ UNCHANGED <<activeTab, labVars, logs, testerVars, honeypotVars, runs, unhandled>>

\* generateContent rejects (network failure, service error)
GenerateRejects(err, latency) ==
  /\ labTask.pc = "generate"
  /\ AnalyzeCatch(err, latency)
  /\ UNCHANGED <<activeTab, selectedLanguage, file, testerVars, honeypotVars, runs, sent>>

\* generateContent resolves with response.text = responseText
GenerateResolves(responseText, latency) ==
  /\ labTask.pc = "generate"
  /\ LET analysis == analyzeAudio(responseText) IN
     IF analysis.ok
       THEN /\ result' = analysis.val
            /\ logs' = addLog(logs, "FORENSIC_SCAN", labTask.file.name, "SUCCESS", latency)
            /\ isAnalyzing' = FALSE
            /\ labTask' = NoTask
            /\ UNCHANGED <<labError, unhandled>>
       ELSE AnalyzeCatch(analysis.val, latency)
  /\ UNCHANGED <<activeTab, selectedLanguage, file, testerVars, honeypotVars, runs, sent>>

(* ------------------------------ inputs --------------------------------- *)
Tabs == {"lab", "tester", "honeypot", "backend"}
TesterEndpoints == {<<>>, PlainEndpoint, SampleTesterEndpoint}
HoneypotEndpoints == {<<>>, SampleTesterEndpoint, SampleHoneypotEndpoint}
ApiKeys == {<<>>, SampleApiKey}
Latencies == {12}

JsonText == <<"{", Quote, "classification", Quote, ":", Quote, "HUMAN", Quote, "}">>
ForbiddenText == <<"Forbidden">>
QuotedText == <<Quote, "Forbidden", Quote>>
TruncatedText == <<"{", Quote, "error", Quote, ":">>
\* <<status, body>> of the responses fetch may resolve with
Responses ==
  { <<200, Body(JsonText)>>, <<299, Body(TruncatedText)>>, <<300, Body(QuotedText)>>,
    <<403, Body(ForbiddenText)>>, <<204, NoBody>> }
\* the headers of the responses a trap endpoint sends
TrapHeaders ==
  [h \in {"content-type", "x-trap-id"} |->
     IF h = "content-type" THEN <<"text/plain">> ELSE <<"nexus-7">>]
\* what fetch and the body readers reject with
FetchErrors == {ErrorOf(<<"Failed to fetch">>)}

Field(k, v) == <<Quote, k, Quote, ":">> \o v
Str(x) == <<Quote, x, Quote>>
FullReport(classification) ==
  <<"{">> \o Field("classification", Str(classification)) \o <<",">>
          \o Field("confidence", <<"0.91">>) \o <<",">>
          \o Field("language", Str("English")) \o <<",">>
          \o Field("reasoning", Str("natural breathing")) \o <<",">>
          \o Field("spectralNotes", Str("no phase discontinuities")) \o <<"}">>
PartialReport == <<"{">> \o Field("classification", Str("HUMAN")) \o <<"}">>
\* response.text of the inference service
ServiceTexts ==
  { JStr(FullReport("HUMAN")), JStr(FullReport("AI_GENERATED")), JStr(FullReport("ROBOT")),
    JStr(PartialReport), JStr(<<"null">>), JStr(<<"Sorry,", "I", "cannot">>),
    JStr(<<>>), JUndef }
\* what generateContent rejects with; the second error has an empty message
ServiceErrors == {ErrorOf(<<"Failed to fetch">>), ErrorOf(<<>>)}
\* the ProgressEvent reader.onerror passes to reject: it has no message
ReadErrorEvent == JObj([type |-> JStr(<<"error">>)])
Languages == {<<"English">>, <<"Tamil">>}
File(name, type, bytes) == [t |-> "file", name |-> name, type |-> type, bytes |-> bytes]
Files ==
  { File(<<"clip", ".mp3">>, <<"audio/mpeg">>, <<73, 68, 51>>),
    File(<<"voice", ".mp3">>, <<>>, <<255, 243>>),
    File(<<"memo", ".wav">>, <<"audio/wav">>, <<82>>),
    File(<<"track", ".mpga">>, <<"audio/mpeg">>, <<73>>) }

(* ------------------------ next-state relations ------------------------- *)
TabNext(tabs) == \E tab \in tabs : setActiveTab(tab)

TesterNext(endpoints, responses, latencies) ==
  \/ \E e \in endpoints : setTesterEndpoint(e)
  \/ \E k \in ApiKeys : setTesterApiKey(k)
  \/ loadSampleTesterData
  \/ handleTestEndpoint
  \/ \E i \in 1..MaxInFlight, r \in responses, l \in latencies :
        TesterFetchResolves(i, r[1], r[2], l)
  \/ \E i \in 1..MaxInFlight, err \in FetchErrors : TesterFetchRejects(i, err)
  \/ \E i \in 1..MaxInFlight : TesterTextResolves(i)
  \/ \E i \in 1..MaxInFlight, err \in FetchErrors : TesterTextRejects(i, err)
  \/ \E i \in 1..MaxInFlight : TesterMockTimer(i)

HoneypotNext(endpoints, responses, latencies) ==
  \/ \E e \in endpoints : setHoneypotEndpoint(e)
  \/ handleTestHoneypot
  \/ \E i \in 1..MaxInFlight, r \in responses, l \in latencies :
        HoneypotFetchResolves(i, r[1], TrapHeaders, r[2], l)
  \/ \E i \in 1..MaxInFlight, err \in FetchErrors : HoneypotFetchRejects(i, err)
  \/ \E i \in 1..MaxInFlight, streamFails \in BOOLEAN : HoneypotJsonSettles(i, streamFails)
  \/ \E i \in 1..MaxInFlight : HoneypotMockTimer(i)

LabNext(files, texts, latencies) ==
  \/ \E l \in Languages : setSelectedLanguage(l)
  \/ \E f \in files : handleFileChange(f)
  \/ handleAnalyze
  \/ EncodeResolves
  \/ \E l \in latencies : EncodeRejects(ReadErrorEvent, l)
  \/ \E err \in ServiceErrors, l \in latencies : GenerateRejects(err, l)
  \/ \E text \in texts, l \in latencies : GenerateResolves(text, l)

\* the generic probe panel alone
NextTester == TabNext({"tester"}) \/ TesterNext(TesterEndpoints, Responses, Latencies)
SpecTester == Init /\ [][NextTester]_vars

\* the honeypot panel alone
NextHoneypot == TabNext({"honeypot"}) \/ HoneypotNext(HoneypotEndpoints, Responses, Latencies)
SpecHoneypot == Init /\ [][NextHoneypot]_vars

\* the lab panel alone
NextLab == TabNext({"lab"}) \/ LabNext(Files, ServiceTexts, Latencies)
SpecLab == Init /\ [][NextLab]_vars

\* fewer responses, for the specifications with more than one panel
LeanResponses == {<<200, Body(JsonText)>>, <<403, Body(ForbiddenText)>>}
LeanFiles == {File(<<"clip", ".mp3">>, <<"audio/mpeg">>, <<73, 68, 51>>)}

\* the two probe panels side by side
NextProbes ==
  \/ TabNext({"tester", "honeypot"})
  \/ TesterNext({PlainEndpoint}, LeanResponses, Latencies)
  \/ HoneypotNext({PlainEndpoint, SampleHoneypotEndpoint}, LeanResponses, Latencies)
SpecProbes == Init /\ [][NextProbes]_vars

\* a pending fetch, body read or timer of a panel settles: the steps the
\* event loop takes once the transport has answered or failed
RefusedResponses == {<<403, Body(ForbiddenText)>>}
TesterProgress ==
  \/ \E i \in 1..MaxInFlight, r \in RefusedResponses, l \in Latencies :
        TesterFetchResolves(i, r[1], r[2], l)
  \/ \E i \in 1..MaxInFlight, err \in FetchErrors : TesterFetchRejects(i, err)
  \/ \E i \in 1..MaxInFlight : TesterTextResolves(i)
  \/ \E i \in 1..MaxInFlight, err \in FetchErrors : TesterTextRejects(i, err)
  \/ \E i \in 1..MaxInFlight : TesterMockTimer(i)
HoneypotProgress ==
  \/ \E i \in 1..MaxInFlight, r \in RefusedResponses, l \in Latencies :
        HoneypotFetchResolves(i, r[1], TrapHeaders, r[2], l)
  \/ \E i \in 1..MaxInFlight, err \in FetchErrors : HoneypotFetchRejects(i, err)
  \/ \E i \in 1..MaxInFlight, streamFails \in BOOLEAN : HoneypotJsonSettles(i, streamFails)
  \/ \E i \in 1..MaxInFlight : HoneypotMockTimer(i)

\* the two probe panels against endpoints that refuse or fail, where every
\* transport answers or fails and promise reactions and timers do run
NextProbesFair ==
  \/ TabNext({"tester", "honeypot"})
  \/ setTesterEndpoint(PlainEndpoint)
  \/ loadSampleTesterData
  \/ handleTestEndpoint
  \/ TesterProgress
  \/ \E e \in {PlainEndpoint, SampleHoneypotEndpoint} : setHoneypotEndpoint(e)
  \/ handleTestHoneypot
  \/ HoneypotProgress
FairProbes == WF_vars(TesterProgress) /\ WF_vars(HoneypotProgress)
SpecProbesFair == Init /\ [][NextProbesFair]_vars /\ FairProbes

\* the lab panel on files of every content up to MaxBytes bytes
SampleBytes == {0, 255}
RECURSIVE ByteSeqs(_)
ByteSeqs(n) ==
  IF n = 0 THEN {<<>>}
  ELSE ByteSeqs(n - 1) \cup {Append(b, x) : b \in ByteSeqs(n - 1), x \in SampleBytes}
EncoderFiles ==
  {File(<<"clip", ".mp3">>, <<"audio/mpeg">>, b) : b \in ByteSeqs(MaxBytes)}
    \cup Files
NextEncoder ==
  \/ TabNext({"lab"})
  \/ \E f \in EncoderFiles : handleFileChange(f)
  \/ handleAnalyze
  \/ EncodeResolves
  \/ \E l \in Latencies : GenerateResolves(JStr(FullReport("HUMAN")), l)
SpecEncoder == Init /\ [][NextEncoder]_vars

\* the file read or the service call of the analysis in flight settles
PlainServiceTexts == {JStr(<<"Sorry,", "I", "cannot">>), JStr(<<>>)}
LabProgress ==
  \/ EncodeResolves
  \/ \E l \in Latencies : EncodeRejects(ReadErrorEvent, l)
  \/ \E err \in ServiceErrors, l \in Latencies : GenerateRejects(err, l)
  \/ \E text \in PlainServiceTexts, l \in Latencies : GenerateResolves(text, l)

\* the lab panel where every file read and every service call settles
NextLabFair ==
  \/ TabNext({"lab"})
  \/ \E l \in Languages : setSelectedLanguage(l)
  \/ \E f \in Files : handleFileChange(f)
  \/ handleAnalyze
  \/ LabProgress
SpecLabFair == Init /\ [][NextLabFair]_vars /\ WF_vars(LabProgress)

\* the three buttons that issue requests, each panel on its fewest inputs
NextClicks ==
  \/ TabNext({"lab", "tester", "honeypot"})
  \/ \E f \in LeanFiles : handleFileChange(f)
  \/ handleAnalyze
  \/ EncodeResolves
  \/ \E l \in Latencies : EncodeRejects(ReadErrorEvent, l)
  \/ \E err \in FetchErrors, l \in Latencies : GenerateRejects(err, l)
  \/ \E l \in Latencies : GenerateResolves(JStr(FullReport("HUMAN")), l)
  \/ loadSampleTesterData
  \/ handleTestEndpoint
  \/ TesterProgress
  \/ \E e \in {PlainEndpoint, SampleHoneypotEndpoint} : setHoneypotEndpoint(e)
  \/ handleTestHoneypot
  \/ HoneypotProgress
SpecClicks == Init /\ [][NextClicks]_vars

\* the audit log after k analyses of a file that all failed
RECURSIVE LogsAfterScans(_, _)
LogsAfterScans(f, k) ==
  IF k = 0 THEN InitialLogs
  ELSE addLog(LogsAfterScans(f, k - 1), "FORENSIC_SCAN", f.name, "FAILURE", 12)

\* the console after up to PriorScans analyses of a file have failed and the
\* file has been chosen again, which clears the error of the last failure
InitAfterScans ==
  /\ activeTab = "lab"
  /\ selectedLanguage = DefaultLanguage
  /\ \E f \in LeanFiles : file = f
  /\ isAnalyzing = FALSE
  /\ result = JNull
  /\ labError = JNull
  /\ \E f \in LeanFiles, k \in 0..PriorScans : logs = LogsAfterScans(f, k)
  /\ tester = InitialTester
  /\ honeypot = InitialHoneypot
  /\ labTask = NoTask
  /\ testerTasks = <<>>
  /\ honeypotTasks = <<>>
  /\ runs = 0
  /\ sent = 0
  /\ unhandled = FALSE

\* the three buttons that issue requests and the Clear Stack button
NextLogs ==
  \/ TabNext(Tabs)
  \/ ClearStack
  \/ handleAnalyze
  \/ EncodeResolves
  \/ \E err \in FetchErrors, l \in Latencies : GenerateRejects(err, l)
  \/ \E l \in Latencies : GenerateResolves(JStr(FullReport("HUMAN")), l)
  \/ loadSampleTesterData
  \/ handleTestEndpoint
  \/ TesterProgress
  \/ setHoneypotEndpoint(SampleHoneypotEndpoint)
  \/ handleTestHoneypot
  \/ HoneypotProgress
SpecLogs == InitAfterScans /\ [][NextLogs]_vars

\* the whole console, the three panels side by side, on fewer inputs
LeanServiceTexts == {JStr(FullReport("HUMAN")), JStr(PartialReport)}
Next ==
  \/ TabNext(Tabs)
  \/ TesterNext({<<>>, SampleTesterEndpoint}, LeanResponses, Latencies)
  \/ HoneypotNext({<<>>, SampleHoneypotEndpoint, PlainEndpoint}, LeanResponses, Latencies)
  \/ LabNext(LeanFiles, LeanServiceTexts, Latencies)
  \/ ClearStack
Spec == Init /\ [][Next]_vars

(* ------------------------------ claims --------------------------------- *)
TaskIds == 1..MaxInFlight
ErrorBody(err) == JObj([error |-> Get(err, "message")])
FailedToFetchBody == JObj([error |-> JStr(<<"Failed to fetch">>)])

\* the names the tester panel gives to the five required fields
RequiredLabel ==
  [endpoint |-> "Endpoint URL", apiKey |-> "x-api-key", language |-> "Language",
   audioFormat |-> "Audio Format", audioBase64 |-> "Audio Base64 Format"]
AnyRequiredEmpty(t) == \E f \in DOMAIN RequiredLabel : IsEmptyStr(t[f])
\* the outcome body v names the field labelled label
Names(v, label) ==
  /\ v.t = "obj"
  /\ \E k \in DOMAIN v.o : v.o[k].t = "str" /\ Includes(v.o[k].s, <<label>>)

\* C1: whenever one of endpoint, apiKey, language, audioFormat, audioBase64 is
\* empty when Execute Probe is clicked, no request is issued and the status
\* becomes 'error'.
C1_EmptyFieldBlocksRequest ==
  [][(handleTestEndpoint /\ AnyRequiredEmpty(tester))
       => (sent' = sent /\ tester'.status = "error")]_vars

\* C2: when validation fails, the outcome body names exactly the required
\* fields that were empty.
C2_BodyNamesMissingFields ==
  [][(handleTestEndpoint /\ sent' = sent)
       => \A f \in DOMAIN RequiredLabel :
             Names(tester'.response, RequiredLabel[f]) <=> IsEmptyStr(tester[f])]_vars

C4_StatusIffTwoXX ==
  [][\A i \in TaskIds :
       TesterTextResolves(i)
         => /\ tester'.status \in {"success", "error"}
            /\ tester'.status = "success"
                 <=> (testerTasks[i].status >= 200 /\ testerTasks[i].status <= 299)]_vars

\* HTTP 299 with a body that is not JSON has been reported as success
C4_Witness ==
  /\ tester.status = "success"
  /\ tester.response = JObj([response |-> JStr(TruncatedText)])
  /\ logs[1].status = "SUCCESS"

\* C5: a body that is not JSON does not fail the operation: the outcome body
\* is {response: <text>} with the text unchanged and the status follows the
\* HTTP status.
C5_NonJsonBodyKept ==
  [][\A i \in TaskIds :
       (TesterTextResolves(i) /\ ~JSONParse(BodyText(testerTasks[i].body)).ok)
         => /\ tester'.response = JObj([response |-> JStr(BodyText(testerTasks[i].body))])
            /\ tester'.status = IF testerTasks[i].status \in 200..299 THEN "success"
                                                                     ELSE "error"
            /\ tester'.latency = JNum(testerTasks[i].latency)
            /\ ~unhandled']_vars

\* HTTP 403 with the plain text Forbidden
C5_Witness ==
  /\ tester.status = "error"
  /\ tester.response = JObj([response |-> JStr(ForbiddenText)])
  /\ tester.latency # JNull

\* the text is no JSON document, or one lacking a field of AnalysisResult
InvalidReport(responseText) ==
  LET parsed == JSONParse(IF responseText.t = "str" THEN responseText.s ELSE <<>>) IN
  \/ ~parsed.ok
  \/ parsed.val.t # "obj"
  \/ \E k \in ResultFields : k \notin DOMAIN parsed.val.o

\* C6: whenever the service text is not valid JSON or lacks one of the five
\* fields, the run fails with the 'Forensic engine failed ...' error and no
\* result is stored.
C6_InvalidReportRejected ==
  [][\A text \in ServiceTexts, l \in Latencies :
       (GenerateResolves(text, l) /\ InvalidReport(text))
         => (labError' = JStr(InvalidReportMessage) /\ result' = result)]_vars

\* C7: every stored result has classification HUMAN or AI_GENERATED.
C7_ClassificationInEnum ==
  result # JNull
    => Get(result, "classification") \in {JStr(<<"HUMAN">>), JStr(<<"AI_GENERATED">>)}

\* C8: whenever encoding, the service call or the decoding throws, the run
\* ends with a non-empty labError, isAnalyzing false, no result stored by the
\* run and nothing escaping.
LabFailureStep ==
  \/ \E l \in Latencies : EncodeRejects(ReadErrorEvent, l)
  \/ \E err \in ServiceErrors, l \in Latencies : GenerateRejects(err, l)
  \/ \E text \in ServiceTexts, l \in Latencies :
        GenerateResolves(text, l) /\ ~analyzeAudio(text).ok
C8_FailureSurfaced ==
  [][LabFailureStep
       => /\ labError'.t = "str"
          /\ Len(labError'.s) > 0
          /\ ~isAnalyzing'
          /\ result' = result
          /\ logs'[1].status = "FAILURE"
          /\ ~unhandled']_vars

\* a failure without a message shows the fallback text
C8_Witness ==
  /\ labError = JStr(EngineUnavailableMessage)
  /\ ~isAnalyzing
  /\ labTask = NoTask
  /\ logs[1].action = "FORENSIC_SCAN"

C10_UnreachableOutcome ==
  [][\A i \in TaskIds, err \in FetchErrors :
       (HoneypotFetchRejects(i, err)
          /\ ~Includes(honeypotTasks[i].endpoint, HoneypotMockMarker))
         => /\ honeypot'.status = "error"
            /\ honeypot'.response = ErrorBody(err)
            /\ honeypot'.statusCode = JNull]_vars

C12_HeadersStatusBodyCaptured ==
  [][\A i \in TaskIds :
       HoneypotJsonSettles(i, FALSE)
         => LET task == honeypotTasks[i]
                parsed == JSONParse(BodyText(task.body))
            IN /\ honeypot'.headers = task.headers
               /\ honeypot'.statusCode = JNum(task.status)
               /\ honeypot'.response = IF parsed.ok THEN parsed.val
                                                    ELSE JStr(BodyText(task.body))]_vars

C14_OutcomeResetAtStart ==
  [][/\ (handleTestEndpoint /\ sent' = sent + 1)
          => /\ tester'.status = "loading"
             /\ tester'.response = JNull
             /\ tester'.latency = JNull
     /\ (handleTestHoneypot /\ sent' = sent + 1)
          => /\ honeypot'.status = "loading"
             /\ honeypot'.response = JNull
             /\ honeypot'.statusCode = JNull]_vars

\* the step in which the run testerTasks[i] / honeypotTasks[i] ends
TesterRunEnds(i) ==
  /\ i \in 1..Len(testerTasks)
  /\ testerTasks' = RemoveAt(testerTasks, i)
HoneypotRunEnds(i) ==
  /\ i \in 1..Len(honeypotTasks)
  /\ honeypotTasks' = RemoveAt(honeypotTasks, i)

\* C15: the step that ends a run writes a terminal status together with the
\* other outcome fields of that same run: the run's HTTP status and latency
\* when it read a response (null if reading the body failed), the mock's
\* values after the mock timer, and null when it failed without a response.
C15_TerminalWriteSetsAllFields ==
  [][/\ \A i \in TaskIds :
          TesterRunEnds(i)
            => /\ tester'.status \in {"success", "error"}
               /\ tester'.latency \in
                    CASE testerTasks[i].pc = "text"
                           -> {JNum(testerTasks[i].latency), JNull}
                      [] testerTasks[i].pc = "timer" -> {JNum(MockTesterLatency)}
                      [] OTHER -> {JNull}
     /\ \A i \in TaskIds :
          HoneypotRunEnds(i)
            => /\ honeypot'.status \in {"success", "error"}
               /\ honeypot'.statusCode \in
                    CASE honeypotTasks[i].pc = "json"
                           -> {JNum(honeypotTasks[i].status), JNull}
                      [] honeypotTasks[i].pc = "timer" -> {JNum(200)}
                      [] OTHER -> {JNull}]_vars

\* the outcome each panel shows
TesterOutcome(t) == <<t.status, t.response, t.latency>>
HoneypotOutcome(h) == <<h.status, h.response, h.statusCode, h.headers>>

\* C16 as stated: the status of either panel changes only along
\* idle->loading, loading->success, loading->error, success->loading and
\* error->loading, and the outcome of a terminal status changes only in a
\* step that sets 'loading'.
C16_OnlyFiveStatusChanges ==
  [][LET StatusChanges ==
           { <<"idle", "loading">>, <<"loading", "success">>, <<"loading", "error">>,
             <<"success", "loading">>, <<"error", "loading">> }
     IN /\ tester'.status # tester.status
             => <<tester.status, tester'.status>> \in StatusChanges
        /\ honeypot'.status # honeypot.status
             => <<honeypot.status, honeypot'.status>> \in StatusChanges
        /\ (tester.status \in {"success", "error"} /\ tester'.status # "loading")
             => TesterOutcome(tester') = TesterOutcome(tester)
        /\ (honeypot.status \in {"success", "error"} /\ honeypot'.status # "loading")
             => HoneypotOutcome(honeypot') = HoneypotOutcome(honeypot)]_vars

\* C16, amended: a status becomes 'loading' only by a click that issues a
\* request (generic probe: never from 'loading'), becomes 'success' or 'error'
\* only in the step that ends a run of that panel or, generic probe, 'error'
\* by a click that fails validation, and becomes 'idle' only by Load Sample
\* Data; every other step leaves status and outcome of the panel unchanged.
C16_StatusChangesByCause ==
  [][/\ tester'.status # tester.status
          => CASE tester'.status = "loading"
                    -> handleTestEndpoint /\ sent' = sent + 1 /\ tester.status # "loading"
               [] tester'.status = "idle" -> loadSampleTesterData
               [] OTHER -> \/ \E i \in TaskIds : TesterRunEnds(i)
                           \/ /\ handleTestEndpoint
                              /\ sent' = sent
                              /\ tester'.status = "error"
     /\ TesterOutcome(tester') # TesterOutcome(tester)
          => \/ handleTestEndpoint
             \/ loadSampleTesterData
             \/ \E i \in TaskIds : TesterRunEnds(i)
     /\ honeypot'.status # honeypot.status
          => CASE honeypot'.status = "loading" -> handleTestHoneypot /\ sent' = sent + 1
               [] honeypot'.status = "idle" -> FALSE
               [] OTHER -> \E i \in TaskIds : HoneypotRunEnds(i)
     /\ HoneypotOutcome(honeypot') # HoneypotOutcome(honeypot)
          => \/ handleTestHoneypot
             \/ \E i \in TaskIds : HoneypotRunEnds(i)]_vars

\* a failed validation has set the generic probe to 'error' without a request,
\* and one of two overlapping honeypot runs has ended while the other is in
\* flight
C16_Witness ==
  /\ tester.status = "error"
  /\ tester.response = JObj([error |-> JStr(MissingFieldsMessage)])
  /\ honeypot.status \in {"success", "error"}
  /\ Len(honeypotTasks) = 1
  /\ sent = 2

\* C17: when the last of several overlapping runs of a panel ends after
\* another of them has already written its outcome, the panel's status, HTTP
\* status and body are those of the run that ends: null HTTP status and the
\* error body for a run that failed without a response, the response's values
\* for a run that read one, the mock's values after the mock timer.
C17_LastCompletionWins ==
  [][/\ \A i \in TaskIds :
          (TesterRunEnds(i) /\ Len(testerTasks) = 1
             /\ tester.status \in {"success", "error"})
            => LET task == testerTasks[i] IN
               CASE task.pc = "fetch"
                      -> /\ tester'.status = "error"
                         /\ \E err \in FetchErrors : tester'.response = ErrorBody(err)
                 [] task.pc = "text"
                      -> \/ /\ tester'.status = (IF ResponseOk(task.status)
                                                   THEN "success" ELSE "error")
                            /\ tester'.response = TesterData(BodyText(task.body))
                         \/ /\ tester'.status = "error"
                            /\ \E err \in FetchErrors : tester'.response = ErrorBody(err)
                 [] OTHER -> tester'.status = "success"
     /\ \A i \in TaskIds :
          (HoneypotRunEnds(i) /\ Len(honeypotTasks) = 1
             /\ honeypot.status \in {"success", "error"})
            => LET task == honeypotTasks[i] IN
               CASE task.pc = "fetch"
                      -> /\ honeypot'.status = "error"
                         /\ honeypot'.statusCode = JNull
                         /\ \E err \in FetchErrors : honeypot'.response = ErrorBody(err)
                 [] task.pc = "json"
                      -> \/ /\ honeypot'.status = (IF ResponseOk(task.status)
                                                     THEN "success" ELSE "error")
                            /\ honeypot'.statusCode = JNum(task.status)
                         \/ /\ honeypot'.status = "error"
                            /\ honeypot'.statusCode = JNull
                 [] OTHER -> /\ honeypot'.status = "success"
                             /\ honeypot'.statusCode = JNum(200)]_vars

\* the runs in flight before the step are all in flight after it, with the
\* request they were started with
RunsKept(tasks, tasksAfter) ==
  /\ Len(tasksAfter) >= Len(tasks)
  /\ \A j \in 1..Len(tasks) : /\ tasksAfter[j].endpoint = tasks[j].endpoint
                              /\ tasksAfter[j].req = tasks[j].req

\* C18: a run leaves the set of runs in flight only in a step that writes a
\* terminal outcome to its panel and logs it; every other step, input edits,
\* Load Sample Data and tab switches included, keeps every run in flight.
C18_NoCancellation ==
  [][/\ \/ RunsKept(testerTasks, testerTasks')
        \/ \E i \in TaskIds : /\ TesterRunEnds(i)
                              /\ tester'.status \in {"success", "error"}
                              /\ tester'.response # JNull
                              /\ logs' # logs
     /\ \/ RunsKept(honeypotTasks, honeypotTasks')
        \/ \E i \in TaskIds : /\ HoneypotRunEnds(i)
                              /\ honeypot'.status \in {"success", "error"}
                              /\ honeypot'.response # JNull
                              /\ logs' # logs]_vars

\* the one probe of the plain endpoint has been applied after Load Sample Data
\* replaced the inputs and the user went to the honeypot tab
C18_Witness ==
  /\ runs = 1
  /\ testerTasks = <<>>
  /\ tester.status = "success"
  /\ tester.endpoint = SampleTesterEndpoint
  /\ logs[1].action = "API_PROBE"
  /\ logs[1].target = PlainEndpoint
  /\ activeTab = "honeypot"

\* C19: under fair settling of fetches, body reads and timers, whenever a
\* panel shows 'loading' it later shows 'success' or 'error'.
C19_LoadingEnds ==
  /\ (tester.status = "loading") ~> (tester.status \in {"success", "error"})
  /\ (honeypot.status = "loading") ~> (honeypot.status \in {"success", "error"})

\* a probe whose body could not be read, and a probe whose fetch failed, have
\* both ended as 'error'
C19_Witness ==
  /\ testerTasks = <<>>
  /\ honeypotTasks = <<>>
  /\ tester.status = "error"
  /\ tester.response = FailedToFetchBody
  /\ honeypot.status = "error"
  /\ honeypot.response = ErrorBody(BodyUsedError)
  /\ sent = 2

\* the runs started so far that have issued, or can still issue, no request
\* yet: an analysis whose file is still being read
RunsBeforeRequest == IF labTask.pc = "encode" THEN 1 ELSE 0

\* C20 as stated: every run started by a click of analyze, the generic probe
\* or the honeypot probe issues exactly one request.
C20_ExactlyOneRequestPerRun == sent = runs - RunsBeforeRequest

\* C20, amended: no run issues more than one request; a request is issued
\* only by a probe click that passes validation and by an analysis whose file
\* has been read, one at a time, never by a completion, catch or timer step;
\* every such click and every file read does issue it, also for a file
\* analysed before; an analysis whose file cannot be read issues none.
C20_AtMostOneAndNoRetry ==
  [][/\ sent' + (IF labTask'.pc = "encode" THEN 1 ELSE 0) <= runs'
     /\ sent' \in {sent, sent + 1}
     /\ sent' = sent + 1 => handleTestEndpoint \/ handleTestHoneypot \/ EncodeResolves
     /\ (handleTestEndpoint /\ Len(missingFields(tester)) = 0) => sent' = sent + 1
     /\ (handleTestHoneypot /\ ~IsEmptyStr(honeypot.endpoint)) => sent' = sent + 1
     /\ handleAnalyze => labTask'.pc = "encode" /\ runs' = runs + 1
     /\ EncodeResolves => sent' = sent + 1
     /\ (\E l \in Latencies : EncodeRejects(ReadErrorEvent, l))
          => sent' = sent /\ labTask' = NoTask]_vars

\* the same file has been analysed twice, each analysis with its own request,
\* and the first result was there when the second run started
C20_Witness ==
  /\ sent = 2
  /\ runs = 2
  /\ labTask = NoTask
  /\ result # JNull
  /\ logs[1].action = "FORENSIC_SCAN" /\ logs[1].status = "SUCCESS"
  /\ logs[2].action = "FORENSIC_SCAN" /\ logs[2].status = "SUCCESS"
  /\ logs[1].target = logs[2].target

\* the request parameters and the outcome the lab panel holds
LabHeld == <<selectedLanguage, file, isAnalyzing, result, labError>>

\* C21: a step of one panel (a click, a validation failure, a completion, a
\* sample loader) changes neither the request parameters nor the outcome of
\* another panel: a step that changes a panel's state or its runs in flight
\* leaves what the two other panels hold unchanged.
C21_PanelsIndependent ==
  [][/\ labVars' # labVars => (tester' = tester /\ honeypot' = honeypot)
     /\ testerVars' # testerVars => (LabHeld' = LabHeld /\ honeypot' = honeypot)
     /\ honeypotVars' # honeypotVars => (LabHeld' = LabHeld /\ tester' = tester)]_vars

\* the three panels hold an outcome each: an analysis result, the error of a
\* failed validation of the generic probe, and the outcome of a honeypot run
C21_Witness ==
  /\ result # JNull
  /\ tester.status = "error"
  /\ tester.response = JObj([error |-> JStr(MissingFieldsMessage)])
  /\ honeypot.status \in {"success", "error"}
  /\ honeypot.response # JNull
  /\ labTask = NoTask /\ testerTasks = <<>> /\ honeypotTasks = <<>>

\* C22: the request a click on Execute Probe issues is a POST to the endpoint
\* of the panel with the header x-api-key holding the panel's apiKey and a
\* body that is the JSON text of an object with exactly the fields "Language",
\* "Audio Format" and "Audio Base64 Format" holding the panel's language,
\* audioFormat and audioBase64.
C22_TesterWireFormat ==
  [][(handleTestEndpoint /\ sent' = sent + 1)
       => LET req == testerTasks'[Len(testerTasks')].req
              body == JSONParse(req.body)
          IN /\ req.method = "POST"
             /\ req.url = tester.endpoint
             /\ req.headers["x-api-key"] = tester.apiKey
             /\ body.ok
             /\ body.val.t = "obj"
             /\ DOMAIN body.val.o = {"Language", "Audio Format", "Audio Base64 Format"}
             /\ body.val.o["Language"] = JStr(tester.language)
             /\ body.val.o["Audio Format"] = JStr(tester.audioFormat)
             /\ body.val.o["Audio Base64 Format"] = JStr(tester.audioBase64)]_vars

\* a probe carrying the sample audio is in flight
C22_Witness ==
  /\ Len(testerTasks) = 1
  /\ testerTasks[1].pc = "fetch"
  /\ testerTasks[1].req.url = SampleTesterEndpoint
  /\ Get(JSONParse(testerTasks[1].req.body).val, "Audio Base64 Format")
       = JStr(SampleAudioBase64)

\* C23: the request a click on Test Honeypot issues is a POST whose body is
\* the JSON text of the decoy, the marker test = "honeypot_probe" and a
\* timestamp field, and whose one header besides Content-Type is the panel's
\* header name with the panel's header value.
C23_HoneypotWireFormat ==
  [][(handleTestHoneypot /\ sent' = sent + 1)
       => LET req == honeypotTasks'[Len(honeypotTasks')].req
              body == JSONParse(req.body)
          IN /\ req.method = "POST"
             /\ DOMAIN req.headers = {"Content-Type", honeypot.headerKey[1]}
             /\ req.headers[honeypot.headerKey[1]] = honeypot.apiKey
             /\ body.ok
             /\ body.val.t = "obj"
             /\ Get(body.val, "test") = JStr(<<"honeypot_probe">>)
             /\ "timestamp" \in DOMAIN body.val.o]_vars

\* C24: when the service answers with a JSON object carrying the five
\* fields, the run stores a result whose five fields are the values of the
\* answer, unchanged, and ends.
C24_FullReportStored ==
  [][\A c \in {"HUMAN", "AI_GENERATED"}, l \in Latencies :
       GenerateResolves(JStr(FullReport(c)), l)
         => /\ result' = JObj([k \in ResultFields |->
                                CASE k = "classification" -> JStr(<<c>>)
                                  [] k = "confidence" -> JNum(910)
                                  [] k = "language" -> JStr(<<"English">>)
                                  [] k = "reasoning" -> JStr(<<"natural breathing">>)
                                  [] OTHER -> JStr(<<"no phase discontinuities">>)])
            /\ isAnalyzing' = FALSE]_vars

\* an analysis has ended with the HUMAN report stored
C24_Witness ==
  /\ labTask = NoTask
  /\ result # JNull
  /\ Get(result, "classification") = JStr(<<"HUMAN">>)
  /\ Get(result, "confidence") = JNum(910)
  /\ Get(result, "spectralNotes") = JStr(<<"no phase discontinuities">>)
  /\ logs[1].action = "FORENSIC_SCAN" /\ logs[1].status = "SUCCESS"

C26_OneTesterRunInFlight == Len(testerTasks) <= 1

\* C27: isAnalyzing is true exactly while an analysis is in flight, of which
\* there is at most one, and whenever it is true it becomes false again,
\* whether the file read, the service call or the decoding succeeds or fails.
C27_AnalyzingFlag ==
  /\ [](isAnalyzing <=> labTask.pc \in {"encode", "generate"})
  /\ isAnalyzing ~> ~isAnalyzing

\* an analysis has failed in decoding and the flag is down again
C27_Witness ==
  /\ ~isAnalyzing
  /\ labTask = NoTask
  /\ labError = JStr(InvalidReportMessage)
  /\ runs = 1

\* the request parameters each probe panel holds
TesterParams(t) == <<t.endpoint, t.apiKey, t.language, t.audioFormat, t.audioBase64>>
HoneypotParams(h) == <<h.endpoint, h.apiKey, h.headerKey>>

\* C28: a step in which a run of a probe advances or ends (response arrived,
\* body read, failure caught, mock timer fired) leaves the request parameters
\* of its panel as they are at that time.
C28_CompletionKeepsParameters ==
  [][/\ (testerTasks' # testerTasks /\ Len(testerTasks') <= Len(testerTasks))
          => TesterParams(tester') = TesterParams(tester)
     /\ (honeypotTasks' # honeypotTasks /\ Len(honeypotTasks') <= Len(honeypotTasks))
          => HoneypotParams(honeypot') = HoneypotParams(honeypot)]_vars

\* the one probe has ended in success while the key field, emptied during the
\* request, is still empty
C28_Witness ==
  /\ runs = 1
  /\ sent = 1
  /\ testerTasks = <<>>
  /\ tester.status = "success"
  /\ tester.apiKey = <<>>
  /\ tester.endpoint = PlainEndpoint

\* C29: choosing a file whose type is 'audio/mpeg' or whose name ends with
\* '.mp3' makes it the current file and clears result and labError; choosing
\* any other file sets labError and leaves the current file and the result.
C29_FileSelection ==
  [][\A f \in Files :
       handleFileChange(f)
         => IF f.type = <<"audio/mpeg">> \/ f.name[Len(f.name)] = ".mp3"
              THEN file' = f /\ result' = JNull /\ labError' = JNull
              ELSE /\ labError' = JStr(UploadMp3Message)
                   /\ file' = file
                   /\ result' = result]_vars

\* a file has been refused while an accepted file and its result are kept
C29_Witness ==
  /\ file # JNull
  /\ result # JNull
  /\ labError = JStr(UploadMp3Message)

====
